---------------------------- MODULE Spec2Model ----------------------------
(***************************************************************************)
(* Model of cmd/sign.go of cosign: the annotationsMap flag value, the      *)
(* Exec handler of the "sign" command and the sign workflow.               *)
(*                                                                         *)
(* Strings whose characters matter (flag arguments, digests, tags) are     *)
(* sequences of one-character strings.  Values produced by collaborators   *)
(* outside cmd/sign.go (registry client, key loader, ed25519, base64) are  *)
(* records that keep what they were computed from.                         *)
(***************************************************************************)
EXTENDS Integers, Sequences, FiniteSets, TLC

(* ----------------------------- bounds --------------------------------- *)

\* Largest number of -a flags on one command line.
MaxSets == 2

\* Largest number of hex characters of a digest.
MaxHexLen == 2

(* ----------------------- strings (package strings) -------------------- *)

\* Index of the first occurrence of character c in s, 0 when absent.
Index(s, c) ==
    IF \E i \in 1..Len(s) : s[i] = c
    THEN CHOOSE i \in 1..Len(s) : s[i] = c /\ \A j \in 1..(i - 1) : s[j] # c
    ELSE 0

\* Variant of SplitN2: splits at the LAST separator.
SplitN2AtLast(s, sep) ==
    IF \E i \in 1..Len(s) : s[i] = sep
    THEN LET i == CHOOSE i \in 1..Len(s) :
                     s[i] = sep /\ \A j \in (i + 1)..Len(s) : s[j] # sep
         IN  << SubSeq(s, 1, i - 1), SubSeq(s, i + 1, Len(s)) >>
    ELSE << s >>

\* strings.SplitN(s, sep, 2) for a one-character separator.
SplitN2(s, sep) ==
    LET i == Index(s, sep)
    IN  IF i = 0 THEN << s >>
        ELSE << SubSeq(s, 1, i - 1), SubSeq(s, i + 1, Len(s)) >>

\* strings.ReplaceAll(s, old, new) for one-character old and new.
ReplaceAll(s, old, new) ==
    [i \in 1..Len(s) |-> IF s[i] = old THEN new ELSE s[i]]

(* ------------------------------ inputs -------------------------------- *)

\* Arguments given to the -a flag.
FlagArgs ==
    { << "k", "=", "v" >>, << "j", "=", "v" >>, << "k", "=" >>,
      << "k", "=", "v", "=", "w" >>, << "k", "v" >> }

\* Values of the -key flag ("" is its default).
KeyPaths == { "", "cosign.key" }

\* Values of the -payload flag ("" is its default).
PayloadPaths == { "", "payload.json" }

\* Values of the -format flag ("compat" is its default).
Formats == { "compat", "index", "nonexistent" }

\* Image references given on the command line.
ImageRefs == { "gcr.io/proj/img:v1", "gcr.io/other/img", "bad ref" }

\* Positional arguments of the command.
ArgLists ==
    { << >> } \cup { << r >> : r \in ImageRefs }
              \cup { << "gcr.io/proj/img:v1", "gcr.io/other/img" >> }

\* Passphrases getPass can return.
Passphrases == { "secret" }

(* ---------------------------- digests --------------------------------- *)

\* Hash algorithms of v1.Hash (go-containerregistry v0.4.1 supports sha256).
Algorithms == { << "s", "h", "a", "2", "5", "6" >> }

\* Hex characters used in the model's digests.
HexChars == { "0", "a" }

RECURSIVE HexStrings(_)
HexStrings(n) ==
    IF n = 0 THEN { << >> }
    ELSE { Append(h, c) : h \in HexStrings(n - 1), c \in HexChars }

\* Digest strings get.Descriptor.Digest.String() can return: algorithm:hex.
Digests ==
    { a \o << ":" >> \o h :
        a \in Algorithms,
        h \in UNION { HexStrings(n) : n \in 1..MaxHexLen } }


(* ------------------- values made by collaborators --------------------- *)

\* pkg.Uploaders: the registered upload formats (flag help "index|compat").
Uploaders == { "index", "compat" }

\* A nil or empty byte slice; a payload is [critical: digest, optional: map].
NoBytes == [critical |-> << >>, optional |-> << >>]

\* Contents a payload file can have: an empty file, a payload that another
\* process wrote for some digest.
FileContents ==
    { NoBytes,
      [critical |-> << "s", "h", "a", "2", "5", "6", ":", "0" >>,
       optional |-> << >>] }

\* pkg.Payload(descriptor, annotations): the bytes binding digest and map.
Payload(d, ann) == [critical |-> d, optional |-> ann.kv]

NoKey == [path |-> "", pass |-> ""]

\* pkg.LoadPrivateKey(keyPath, pass), when it succeeds.
LoadPrivateKey(keyPath, pw) == [path |-> keyPath, pass |-> pw]

NoSig == [pk |-> NoKey, msg |-> NoBytes]

\* ed25519.Sign(pk, payload): determined by the key and the message.
Ed25519Sign(k, msg) == [pk |-> k, msg |-> msg]

\* base64.StdEncoding.EncodeToString(signature).
EncodeToString(sig) == [base64 |-> sig]

NoRef == [ok |-> FALSE, repo |-> "", id |-> ""]

\* name.ParseReference(imageRef): the repository and identifier, or an error.
ParseReference(s) ==
    CASE s = "gcr.io/proj/img:v1" ->
             [ok |-> TRUE, repo |-> "gcr.io/proj/img", id |-> "v1"]
      [] s = "gcr.io/other/img" ->
             [ok |-> TRUE, repo |-> "index.docker.io/gcr.io/other/img",
              id |-> "latest"]
      [] OTHER -> NoRef

NoTag == [repo |-> "", tag |-> << >>]

\* ref.Context().Tag(munged): the tag munged in the repository of ref.
RepoTag(r, munged) == [repo |-> r.repo, tag |-> munged]

(* ------------------------------ errors -------------------------------- *)

ErrHelp == "flag: help requested"
ErrInvalidFlag == "invalid flag: expected key=value"
ErrUnsupportedFormat == "unsupported format flag"
ErrParseReference == "name.ParseReference: error"
ErrGet == "remote.Get: error"
ErrReadFile == "ioutil.ReadFile: error"
ErrPayload == "pkg.Payload: error"
ErrGetPass == "getPass: error"
ErrLoadPrivateKey == "pkg.LoadPrivateKey: error"
ErrUpload == "Uploader.Upload: error"

\* The nil error, and the result of a command that has not returned.
Nil == "nil"
Running == "running"

(* ------------------------------- state -------------------------------- *)

VARIABLES
    annotations,    \* annotationsMap.annotations: [nil, kv]
    setLog,         \* the Set calls made so far: [arg, err]
    pc,             \* position of the process
    key, args, format, upload, payloadPath,     \* flag values seen by Exec
    uploader,       \* pkg.Uploaders[*format]
    ref,            \* sign: ref
    digest,         \* sign: get.Descriptor.Digest.String()
    payload,        \* sign: payload
    pass,           \* sign: pass
    pk,             \* sign: pk
    signature,      \* sign: signature
    dstTag,         \* sign: dstTag
    fileBytes,      \* the bytes held by the payload file
    calls,          \* the calls sign has made so far: [op, err]
    stdout, stderr, \* lines written
    uploads,        \* the calls uploader.Upload has received
    result,         \* the error the command returned
    d1, d2,         \* address derivation: two digests
    tag1, tag2      \* address derivation: their tags

flagVars == << key, args, format, upload, payloadPath, uploader >>
signVars == << ref, digest, payload, pass, pk, signature, dstTag >>
outVars  == << stdout, stderr, uploads >>
addrVars == << d1, d2, tag1, tag2 >>
vars == << annotations, setLog, pc, flagVars, signVars, fileBytes, calls,
           outVars, result, addrVars >>

CliInit ==
    /\ annotations = [nil |-> TRUE, kv |-> << >>]
    /\ setLog = << >>
    /\ pc = "flags"
    /\ key = "" /\ args = << >> /\ format = "compat" /\ upload = TRUE
    /\ payloadPath = "" /\ uploader = ""
    /\ ref = NoRef /\ digest = << >> /\ payload = NoBytes /\ pass = ""
    /\ pk = NoKey /\ signature = NoSig /\ dstTag = NoTag
    /\ fileBytes \in FileContents
    /\ calls = << >>
    /\ stdout = << >> /\ stderr = << >> /\ uploads = << >>
    /\ result = Running

AddrIdle ==
    /\ d1 = << >> /\ d2 = << >> /\ tag1 = << >> /\ tag2 = << >>

Init == CliInit /\ AddrIdle

(* -------------------------- annotationsMap ---------------------------- *)

\* The map m with key k set to v.
MapSet(m, k, v) ==
    [x \in (DOMAIN m) \cup {k} |-> IF x = k THEN v ELSE m[x]]

\* (a *annotationsMap) Set(s): the map afterwards and the error returned.
SetResult(a, s) ==
    LET kvp == SplitN2(s, "=")
    IN  IF Len(kvp) # 2
        THEN [ann |-> [nil |-> FALSE, kv |-> a.kv], err |-> ErrInvalidFlag]
        ELSE [ann |-> [nil |-> FALSE, kv |-> MapSet(a.kv, kvp[1], kvp[2])],
              err |-> Nil]

\* flagset.Var(&annotations, "a", ...): one -a flag is parsed.  The flag set
\* is flag.ExitOnError: an error from Set ends the process.
Set(s) ==
    /\ pc = "flags"
    /\ Len(setLog) < MaxSets
    /\ LET r == SetResult(annotations, s)
       IN  /\ annotations' = r.ann
           /\ setLog' = Append(setLog, [arg |-> s, err |-> r.err])
           /\ IF r.err # Nil
              THEN pc' = "exited" /\ result' = r.err
              ELSE UNCHANGED << pc, result >>
    /\ UNCHANGED << flagVars, signVars, calls, outVars, addrVars,
                    fileBytes >>

(* ------------------------------- Exec --------------------------------- *)

\* Variant of Exec: the ok of the registry lookup is ignored.
ExecIgnoresLookup(k, a, f, u, p) ==
    /\ pc = "flags"
    /\ key' = k /\ args' = a /\ format' = f /\ upload' = u
    /\ payloadPath' = p
    /\ IF k = "" \/ Len(a) # 1
       THEN /\ result' = ErrHelp
            /\ pc' = "returned"
            /\ UNCHANGED uploader
       ELSE /\ uploader' = f
            /\ pc' = "sign"
            /\ UNCHANGED result
    /\ UNCHANGED << annotations, setLog, signVars, calls, outVars, addrVars,
                    fileBytes >>

\* Variant of Exec: the check of the key path is missing.
ExecNoKeyCheck(k, a, f, u, p) ==
    /\ pc = "flags"
    /\ key' = k /\ args' = a /\ format' = f /\ upload' = u
    /\ payloadPath' = p
    /\ IF Len(a) # 1
       THEN /\ result' = ErrHelp
            /\ pc' = "returned"
            /\ UNCHANGED uploader
       ELSE IF f \notin Uploaders
       THEN /\ result' = ErrUnsupportedFormat
            /\ pc' = "returned"
            /\ UNCHANGED uploader
       ELSE /\ uploader' = f
            /\ pc' = "sign"
            /\ UNCHANGED result
    /\ UNCHANGED << annotations, setLog, signVars, calls, outVars, addrVars,
                    fileBytes >>

\* Sign().Exec with the parsed flag values and positional arguments.
Exec(k, a, f, u, p) ==
    /\ pc = "flags"
    /\ key' = k /\ args' = a /\ format' = f /\ upload' = u
    /\ payloadPath' = p
    /\ IF k = "" \/ Len(a) # 1
       THEN /\ result' = ErrHelp
            /\ pc' = "returned"
            /\ UNCHANGED uploader
       ELSE IF f \notin Uploaders
       THEN /\ result' = ErrUnsupportedFormat
            /\ pc' = "returned"
            /\ UNCHANGED uploader
       ELSE /\ uploader' = f
            /\ pc' = "sign"
            /\ UNCHANGED result
    /\ UNCHANGED << annotations, setLog, signVars, calls, outVars, addrVars,
                    fileBytes >>

(* ------------------------------- sign --------------------------------- *)

\* One more call in the history of sign.
Called(op, e) == Append(calls, [op |-> op, err |-> e])

\* sign returns the error e.
Return(e) == result' = e /\ pc' = "returned"

\* ref, err := name.ParseReference(imageRef)
SignParseReference ==
    /\ pc = "sign"
    /\ LET r == ParseReference(args[1])
       IN  IF r.ok
           THEN /\ ref' = r
                /\ calls' = Called("ParseReference", Nil)
                /\ pc' = "parsed"
                /\ UNCHANGED result
           ELSE /\ calls' = Called("ParseReference", ErrParseReference)
                /\ Return(ErrParseReference)
                /\ UNCHANGED ref
    /\ UNCHANGED << annotations, setLog, flagVars, digest, payload, pass, pk,
                    signature, dstTag, outVars, addrVars,
                    fileBytes >>

\* get, err := remote.Get(ref, ...): the registry answers with the
\* descriptor of digest d, or with the error e.
SignGet(e, d) ==
    /\ pc = "parsed"
    /\ calls' = Called("Get", e)
    /\ IF e = Nil
       THEN digest' = d /\ pc' = "resolved" /\ UNCHANGED result
       ELSE Return(e) /\ UNCHANGED digest
    /\ UNCHANGED << annotations, setLog, flagVars, ref, payload, pass, pk,
                    signature, dstTag, outVars, addrVars,
                    fileBytes >>

\* payloadPath != "": payload, err = ioutil.ReadFile(payloadPath); the read
\* gives the bytes of the file, or fails with e.
SignReadFile(e) ==
    /\ pc = "resolved"
    /\ payloadPath # ""
    /\ stderr' = Append(stderr, [msg |-> "Using payload from:",
                                 path |-> payloadPath, tag |-> NoTag])
    /\ calls' = Called("ReadFile", e)
    /\ IF e = Nil
       THEN payload' = fileBytes /\ pc' = "payload" /\ UNCHANGED result
       ELSE Return(e) /\ UNCHANGED payload
    /\ UNCHANGED << annotations, setLog, flagVars, ref, digest, pass, pk,
                    signature, dstTag, stdout, uploads, addrVars,
                    fileBytes >>

\* Variant of SignPayload: the payload is built whether or not a payload
\* file was named.
SignPayloadAlways(e) ==
    /\ pc = "resolved"
    /\ calls' = Called("Payload", e)
    /\ IF e = Nil
       THEN /\ payload' = Payload(digest, annotations)
            /\ pc' = "payload"
            /\ UNCHANGED result
       ELSE Return(e) /\ UNCHANGED payload
    /\ UNCHANGED << annotations, setLog, flagVars, ref, digest, pass, pk,
                    signature, dstTag, outVars, addrVars, fileBytes >>

\* payloadPath == "": payload, err = pkg.Payload(get.Descriptor, annotations)
SignPayload(e) ==
    /\ pc = "resolved"
    /\ payloadPath = ""
    /\ calls' = Called("Payload", e)
    /\ IF e = Nil
       THEN /\ payload' = Payload(digest, annotations)
            /\ pc' = "payload"
            /\ UNCHANGED result
       ELSE Return(e) /\ UNCHANGED payload
    /\ UNCHANGED << annotations, setLog, flagVars, ref, digest, pass, pk,
                    signature, dstTag, outVars, addrVars,
                    fileBytes >>

\* Variant of SignGetPass: the error of getPass is not returned.
SignGetPassIgnoresError(e, pw) ==
    /\ pc = "payload"
    /\ calls' = Called("getPass", e)
    /\ pass' = IF e = Nil THEN pw ELSE ""
    /\ pc' = "pass"
    /\ UNCHANGED << annotations, setLog, flagVars, ref, digest, payload, pk,
                    signature, dstTag, outVars, result, addrVars, fileBytes >>

\* pass, err := getPass(false)
SignGetPass(e, pw) ==
    /\ pc = "payload"
    /\ calls' = Called("getPass", e)
    /\ IF e = Nil
       THEN pass' = pw /\ pc' = "pass" /\ UNCHANGED result
       ELSE Return(e) /\ UNCHANGED pass
    /\ UNCHANGED << annotations, setLog, flagVars, ref, digest, payload, pk,
                    signature, dstTag, outVars, addrVars,
                    fileBytes >>

\* Variant of SignLoadPrivateKey: the key may be loaded in place of the
\* payload acquisition.
SignLoadPrivateKeyEarly(e) ==
    /\ pc \in {"resolved", "pass"}
    /\ calls' = Called("LoadPrivateKey", e)
    /\ IF e = Nil
       THEN /\ pk' = LoadPrivateKey(key, pass)
            /\ pc' = IF pc = "pass" THEN "key" ELSE "payload"
            /\ UNCHANGED result
       ELSE Return(e) /\ UNCHANGED pk
    /\ UNCHANGED << annotations, setLog, flagVars, ref, digest, payload, pass,
                    signature, dstTag, outVars, addrVars, fileBytes >>

\* pk, err := pkg.LoadPrivateKey(keyPath, pass)
SignLoadPrivateKey(e) ==
    /\ pc = "pass"
    /\ calls' = Called("LoadPrivateKey", e)
    /\ IF e = Nil
       THEN pk' = LoadPrivateKey(key, pass) /\ pc' = "key" /\ UNCHANGED result
       ELSE Return(e) /\ UNCHANGED pk
    /\ UNCHANGED << annotations, setLog, flagVars, ref, digest, payload, pass,
                    signature, dstTag, outVars, addrVars,
                    fileBytes >>

\* signature := ed25519.Sign(pk, payload)
SignSign ==
    /\ pc = "key"
    /\ calls' = Called("Sign", Nil)
    /\ signature' = Ed25519Sign(pk, payload)
    /\ pc' = "signed"
    /\ UNCHANGED << annotations, setLog, flagVars, ref, digest, payload, pass,
                    pk, dstTag, outVars, result, addrVars, fileBytes >>

\* Variant of SignDisplay: the return after the print is missing.
SignDisplayNoReturn ==
    /\ pc = "signed"
    /\ ~upload
    /\ calls' = Called("Println", Nil)
    /\ stdout' = Append(stdout, EncodeToString(signature))
    /\ pc' = "addressed"
    /\ UNCHANGED << annotations, setLog, flagVars, signVars, stderr, uploads,
                    result, addrVars, fileBytes >>

\* if !upload { fmt.Println(base64...(signature)); return nil }
SignDisplay ==
    /\ pc = "signed"
    /\ ~upload
    /\ calls' = Called("Println", Nil)
    /\ stdout' = Append(stdout, EncodeToString(signature))
    /\ Return(Nil)
    /\ UNCHANGED << annotations, setLog, flagVars, signVars, stderr, uploads,
                    addrVars,
                    fileBytes >>

\* Variant of Munge: writes '_' for the separator.
MungeUnderscore(d) == ReplaceAll(d, ":", "_")

\* Variant of Munge: stops after the first separator it rewrites.
MungeStopsAtSeparator(d) ==
    LET i == Index(d, ":")
    IN  IF i = 0 THEN d ELSE Append(SubSeq(d, 1, i - 1), "-")

\* sha256:... -> sha256-...
Munge(d) == ReplaceAll(d, ":", "-")

\* munged := ...; dstTag := ref.Context().Tag(munged); "Pushing signature to:"
SignTag ==
    /\ pc = "signed"
    /\ upload
    /\ calls' = Called("Tag", Nil)
    /\ dstTag' = RepoTag(ref, Munge(digest))
    /\ stderr' = Append(stderr, [msg |-> "Pushing signature to:",
                                 path |-> "",
                                 tag |-> RepoTag(ref, Munge(digest))])
    /\ pc' = "addressed"
    /\ UNCHANGED << annotations, setLog, flagVars, ref, digest, payload, pass,
                    pk, signature, stdout, uploads, result, addrVars,
                    fileBytes >>

\* Variant of SignUpload: the payload handed over is built anew from the
\* descriptor instead of being the bytes that were signed.
SignUploadRebuilt(e) ==
    /\ pc = "addressed"
    /\ calls' = Called("Upload", e)
    /\ uploads' = Append(uploads, [uploader |-> uploader, signature |-> signature,
                                   payload |-> Payload(digest, annotations),
                                   dst |-> dstTag])
    /\ Return(e)
    /\ UNCHANGED << annotations, setLog, flagVars, signVars, stdout, stderr,
                    addrVars, fileBytes >>

\* return uploader.Upload(signature, payload, dstTag)
SignUpload(e) ==
    /\ pc = "addressed"
    /\ calls' = Called("Upload", e)
    /\ uploads' = Append(uploads, [uploader |-> uploader, signature |-> signature,
                                   payload |-> payload, dst |-> dstTag])
    /\ Return(e)
    /\ UNCHANGED << annotations, setLog, flagVars, signVars, stdout, stderr,
                    addrVars,
                    fileBytes >>

(* --------------------------- specification ---------------------------- *)

Next ==
    \/ \E s \in FlagArgs : Set(s)
    \/ \E k \in KeyPaths, a \in ArgLists, f \in Formats, u \in BOOLEAN,
          p \in PayloadPaths : Exec(k, a, f, u, p)
    \/ SignParseReference
    \/ \E e \in {Nil, ErrGet}, d \in Digests : SignGet(e, d)
    \/ \E e \in {Nil, ErrReadFile} : SignReadFile(e)
    \/ \E e \in {Nil, ErrPayload} : SignPayload(e)
    \/ \E e \in {Nil, ErrGetPass}, pw \in Passphrases : SignGetPass(e, pw)
    \/ \E e \in {Nil, ErrLoadPrivateKey} : SignLoadPrivateKey(e)
    \/ SignSign
    \/ SignDisplay
    \/ SignTag
    \/ \E e \in {Nil, ErrUpload} : SignUpload(e)

Spec == Init /\ [][Next]_vars

\* Every call of a collaborator returns, so the command runs to its end.
FairSpec == Spec /\ WF_vars(Next)

(* ------------------------ address derivation -------------------------- *)

AddrInit ==
    /\ CliInit
    /\ d1 \in Digests /\ d2 \in Digests
    /\ tag1 = << >> /\ tag2 = << >>

\* The tag of sign for each of the two digests.
Derive ==
    /\ tag1 = << >>
    /\ tag1' = Munge(d1)
    /\ tag2' = Munge(d2)
    /\ UNCHANGED << annotations, setLog, pc, flagVars, signVars, fileBytes,
                    calls, outVars, result, d1, d2 >>

AddrNext == Derive

AddrSpec == AddrInit /\ [][AddrNext]_vars

(* ============================== claims ================================ *)

(* ------------------------------- C10 ---------------------------------- *)

\* s has the form key=value.
HasEq(s) == \E i \in 1..Len(s) : s[i] = "="

\* Length of the longest prefix of s that holds no '='.
KeyLen(s) ==
    CHOOSE n \in 0..Len(s) :
        /\ \A j \in 1..n : s[j] # "="
        /\ n < Len(s) => s[n + 1] = "="

KeyOf(s) == SubSeq(s, 1, KeyLen(s))
ValueOf(s) == SubSeq(s, KeyLen(s) + 2, Len(s))

\* C10: after any sequence of Set calls the map holds, for each key, the
\* value of the last call key=value, the argument being cut at its first
\* '=' only; every key of such a call is in the map; a call whose argument
\* has no '=' returns an error and leaves every entry as it was.
C10_LastWriteWins ==
    LET n == Len(setLog)
        m == annotations.kv
    IN  /\ \A k \in DOMAIN m :
              \E i \in 1..n :
                  /\ HasEq(setLog[i].arg)
                  /\ KeyOf(setLog[i].arg) = k
                  /\ m[k] = ValueOf(setLog[i].arg)
                  /\ \A j \in (i + 1)..n :
                         HasEq(setLog[j].arg) => KeyOf(setLog[j].arg) # k
        /\ \A i \in 1..n :
              /\ HasEq(setLog[i].arg) => KeyOf(setLog[i].arg) \in DOMAIN m
              /\ (setLog[i].err # Nil) <=> ~HasEq(setLog[i].arg)

\* A key written twice, the later value holding a '=' of its own.
C10_Witness ==
    /\ Len(setLog) = 2
    /\ setLog[1].arg = << "k", "=", "v" >>
    /\ setLog[2].arg = << "k", "=", "v", "=", "w" >>
    /\ DOMAIN annotations.kv = { << "k" >> }
    /\ annotations.kv[<< "k" >>] = << "v", "=", "w" >>

(* -------------------------------- C5 ---------------------------------- *)

\* The separator substitution of Munge, inverted.
Unmunge(tg) == [i \in 1..Len(tg) |-> IF tg[i] = "-" THEN ":" ELSE tg[i]]

\* C5: putting the separator back into the tag derived from a digest gives
\* the digest exactly.
C5_RoundTrip == tag1 # << >> => Unmunge(tag1) = d1

\* A tag has been derived, and it differs from its digest.
C5_Witness == tag1 # << >> /\ tag1 # d1 /\ Len(d1) > 8

(* -------------------------------- C6 ---------------------------------- *)

\* C6: equal digests have equal tags, and two distinct digests never have
\* the same tag.
C6_Injective == tag1 # << >> => ((d1 = d2) <=> (tag1 = tag2))

\* Tags derived for two distinct digests of the same length.
C6_Witness ==
    /\ tag1 # << >> /\ tag2 # << >>
    /\ d1 # d2 /\ Len(d1) = Len(d2)
    /\ tag1 # tag2

(* ------------------- vocabulary of the workflow claims ---------------- *)

\* sign has called op.
Did(op) == \E i \in 1..Len(calls) : calls[i].op = op

\* sign has called op and the call succeeded.
Succeeded(op) == \E i \in 1..Len(calls) : calls[i] = [op |-> op, err |-> Nil]

\* The number of calls of op.
Count(op) == Cardinality({ i \in 1..Len(calls) : calls[i].op = op })

LastOp == IF calls = << >> THEN "" ELSE calls[Len(calls)].op

\* Exec has run.
ExecRan == pc \notin {"flags", "exited"}

\* Nothing of the sign workflow has happened.
NotStarted ==
    /\ calls = << >>
    /\ ref = NoRef /\ digest = << >> /\ payload = NoBytes /\ pass = ""
    /\ pk = NoKey /\ signature = NoSig /\ dstTag = NoTag
    /\ stdout = << >> /\ stderr = << >> /\ uploads = << >>

\* The terminal states of the workflow.
Displayed == pc = "returned" /\ result = Nil /\ LastOp = "Println"
Uploaded  == pc = "returned" /\ result = Nil /\ LastOp = "Upload"
Failed    == pc = "returned" /\ result \notin {Nil, Running}

\* Resolution, payload acquisition, passphrase and key loading succeeded.
KeyLoaded ==
    /\ Succeeded("ParseReference") /\ Succeeded("Get")
    /\ Succeeded("ReadFile") \/ Succeeded("Payload")
    /\ Succeeded("getPass") /\ Succeeded("LoadPrivateKey")

(* -------------------------------- C1 ---------------------------------- *)

\* C1: with upload=false and resolution, payload acquisition, passphrase
\* and key loading all successful, the Uploader is never invoked and no
\* address is derived, and the run ends in Displayed with a nil result and
\* exactly the base64 form of the signature on stdout.
C1_DisplayOnly ==
    (ExecRan /\ ~upload /\ KeyLoaded) =>
        /\ uploads = << >>
        /\ dstTag = NoTag
        /\ ~Did("Tag") /\ ~Did("Upload")
        /\ pc \in {"key", "signed", "returned"}
        /\ pc = "returned" =>
              /\ Displayed
              /\ ~Uploaded /\ ~Failed
              /\ stdout = << EncodeToString(Ed25519Sign(pk, payload)) >>

\* A run with upload=false has returned after loading the key.
C1_Witness ==
    /\ pc = "returned" /\ ~upload /\ KeyLoaded
    /\ Len(stdout) = 1

(* -------------------------------- C2 ---------------------------------- *)

\* C2: a failed call is the last call of the run, the run has returned
\* exactly its error, and unless that call is the upload itself the
\* Uploader has not been invoked; the Uploader is invoked only after every
\* earlier step succeeded.
C2_NoPartialPublication ==
    /\ \A i \in 1..Len(calls) :
          calls[i].err # Nil =>
              /\ i = Len(calls)
              /\ pc = "returned"
              /\ result = calls[i].err
              /\ calls[i].op # "Upload" => uploads = << >>
    /\ uploads # << >> =>
          /\ KeyLoaded
          /\ Succeeded("Sign") /\ Succeeded("Tag")
          /\ \A i \in 1..(Len(calls) - 1) : calls[i].err = Nil

\* A run with upload=true failed at key loading.
C2_Witness ==
    /\ pc = "returned" /\ upload
    /\ result = ErrLoadPrivateKey
    /\ LastOp = "LoadPrivateKey"
    /\ uploads = << >>

(* -------------------------------- C3 ---------------------------------- *)

\* C3: with a key path and one reference argument, an unregistered format
\* makes Exec return the unsupported-format error with nothing of the
\* workflow done.
C3_UnsupportedFormatFirst ==
    (ExecRan /\ key # "" /\ Len(args) = 1 /\ format \notin Uploaders) =>
        /\ pc = "returned"
        /\ result = ErrUnsupportedFormat
        /\ NotStarted

\* Exec has run with a key, a resolvable reference and format "nonexistent".
C3_Witness ==
    /\ ExecRan /\ key # "" /\ format = "nonexistent"
    /\ args = << "gcr.io/proj/img:v1" >>
    /\ ~upload

(* -------------------------------- C4 ---------------------------------- *)

\* C4: with a payload file named, pkg.Payload is never invoked and the
\* bytes signed and uploaded are the bytes of the file; with none named,
\* pkg.Payload is invoked with the descriptor and the annotations and its
\* output is what is signed.
C4_PayloadOverride ==
    ExecRan =>
        /\ payloadPath # "" =>
              /\ ~Did("Payload")
              /\ Succeeded("ReadFile") => payload = fileBytes
              /\ Did("Sign") => signature = Ed25519Sign(pk, fileBytes)
              /\ \A i \in 1..Len(uploads) : uploads[i].payload = fileBytes
        /\ payloadPath = "" =>
              /\ ~Did("ReadFile")
              /\ Did("getPass") => Succeeded("Payload")
              /\ Succeeded("Payload") => payload = Payload(digest, annotations)
              /\ Did("Sign") =>
                    signature = Ed25519Sign(pk, Payload(digest, annotations))

\* A file that does not hold the digest was signed and uploaded.
C4_Witness ==
    /\ payloadPath # "" /\ Uploaded
    /\ fileBytes.critical # digest
    /\ uploads[1].payload = fileBytes
    /\ annotations.kv # << >>

(* -------------------------------- C7 ---------------------------------- *)

\* C7 as stated: a missing key path, a missing reference argument or an
\* unregistered format each end the command with the usage error.
C7_AsStated ==
    (ExecRan /\ (key = "" \/ Len(args) = 0 \/ format \notin Uploaders)) =>
        /\ pc = "returned"
        /\ result = ErrHelp
        /\ NotStarted

\* C7 amended: a missing key path or a missing reference argument ends
\* the command with the usage error; an unregistered format, the key path
\* and exactly one reference argument being given, ends it with the
\* unsupported-format error; in each case nothing of the workflow is done.
C7_UsageErrors ==
    ExecRan =>
        /\ (key = "" \/ Len(args) = 0) =>
              pc = "returned" /\ result = ErrHelp /\ NotStarted
        /\ (key # "" /\ Len(args) = 1 /\ format \notin Uploaders) =>
              /\ pc = "returned" /\ NotStarted
              /\ result = ErrUnsupportedFormat /\ result # ErrHelp

\* Exec has run without a key path but with a reference and a format.
C7_Witness ==
    /\ ExecRan /\ key = "" /\ Len(args) = 1 /\ format \in Uploaders
    /\ result = ErrHelp

(* -------------------------------- C8 ---------------------------------- *)

\* The tag name the digest dg is published under.
TagNameOf(dg, tg) ==
    /\ Len(tg) = Len(dg)
    /\ \A i \in 1..Len(dg) : tg[i] = IF dg[i] = ":" THEN "-" ELSE dg[i]

\* C8: with upload=true the Uploader is invoked at most once, and once the
\* run has returned after signing exactly once, with the signature over
\* the payload, the payload that was signed, and the tag named after the
\* digest in the repository of the reference; the result of sign is the
\* result of the Uploader.
C8_UploadOnce ==
    /\ Len(uploads) <= 1
    /\ (pc = "returned" /\ upload /\ Succeeded("Sign")) =>
          /\ Len(uploads) = 1 /\ Count("Upload") = 1
          /\ LastOp = "Upload"
          /\ result = calls[Len(calls)].err
          /\ result = Nil => Uploaded
          /\ result # Nil => Failed /\ result = ErrUpload
    /\ \A i \in 1..Len(uploads) :
          /\ uploads[i].uploader = format
          /\ uploads[i].signature = Ed25519Sign(pk, payload)
          /\ uploads[i].signature.msg = uploads[i].payload
          /\ uploads[i].payload = payload
          /\ uploads[i].dst.repo = ParseReference(args[1]).repo
          /\ TagNameOf(digest, uploads[i].dst.tag)

\* An upload of a built payload has succeeded.
C8_Witness ==
    /\ Uploaded /\ payloadPath = ""
    /\ Len(uploads) = 1
    /\ uploads[1].dst.tag # digest

(* -------------------------------- C9 ---------------------------------- *)

\* The place of a call in a run of sign.
Rank(op) ==
    CASE op = "ParseReference" -> 1
      [] op = "Get" -> 2
      [] op \in {"ReadFile", "Payload"} -> 3
      [] op = "getPass" -> 4
      [] op = "LoadPrivateKey" -> 5
      [] op = "Sign" -> 6
      [] op \in {"Println", "Tag"} -> 7
      [] op = "Upload" -> 8

\* The i-th call of a run is the call of rank i, the upload follows the
\* address derivation, and a run that has returned is in exactly one of
\* the terminal states.
C9_Order ==
    /\ \A i \in 1..Len(calls) : Rank(calls[i].op) = i
    /\ Did("Upload") => calls[Len(calls) - 1].op = "Tag"
    /\ pc = "returned" =>
          /\ Displayed \/ Uploaded \/ Failed
          /\ ~(Displayed /\ Uploaded)
          /\ ~(Displayed /\ Failed)
          /\ ~(Uploaded /\ Failed)

\* C9: the steps of sign happen in the order resolution, payload, key
\* loading, signing, then display or address derivation and upload, none
\* twice, and every run of sign ends in exactly one terminal state.
C9_Sequential == [] C9_Order /\ ((pc = "sign") ~> (pc = "returned"))

\* A run went through every step up to the upload.
C9_Witness == Len(calls) = 8 /\ LastOp = "Upload" /\ pc = "returned"

=============================================================================
